---- MODULE Spec2Model ----
(***************************************************************************)
(* SatoshiRss (src/plugins/satoshirss/__init__.py): a plugin that          *)
(* refreshes RSS feeds on a schedule, recognises each entry and either     *)
(* adds a subscription or downloads it, keeping a persisted history of     *)
(* the raw titles it has handled.                                          *)
(*                                                                         *)
(* The model holds the plugin's configuration attributes, the persisted    *)
(* 'history' plugin data, the one-shot job of the plugin's own scheduler   *)
(* and two executions of check(): "once" (the date job init_plugin adds)   *)
(* and "cron" (the service get_service registers with the host).  The      *)
(* module-level lock of line 25 is never acquired by any method, so        *)
(* nothing orders the two executions.                                      *)
(*                                                                         *)
(* Attributes that no modelled branch reads (_cron, _notify, _proxy,       *)
(* _save_path) and the record fields year, poster, overview and time are   *)
(* left out.                                                               *)
(***************************************************************************)
EXTENDS Integers, Sequences, FiniteSets, TLC

VARIABLES
    _enabled,      \* self._enabled
    _onlyonce,     \* self._onlyonce
    _clear,        \* self._clear
    _clearflag,    \* self._clearflag
    _address,      \* self._address, as the list of its lines
    _include,      \* self._include
    _exclude,      \* self._exclude
    _filter,       \* self._filter
    _action,       \* self._action
    job,          \* TRUE while the one-shot date job is waiting in self._scheduler
    store,        \* the plugin data saved under 'history'
    pc,           \* per execution of check: where it is
    urls,         \* per execution: the list self._address.split("\n") it iterates
    ui,           \* per execution: index of the current url
    url_include,  \* per execution: url_include of the current url (line 648)
    ri,           \* per execution: index of the current result of the current url
    history,      \* per execution: the local list `history`
    cycle,        \* per execution: what the running cycle has done so far (observer)
    last          \* the calls and answers of the latest step (observer)

vars == <<_enabled, _onlyonce, _clear, _clearflag, _address, _include, _exclude,
          _filter, _action, job, store, pc, urls, ui, url_include, ri, history, cycle, last>>

config_vars == <<_enabled, _onlyonce, _clear, _address, _include, _exclude, _filter, _action>>
local_vars == <<pc, urls, ui, url_include, ri, history>>

(***************************************************************************)
(* Bounds of the model.                                                    *)
(***************************************************************************)
\* Number of entries a feed returns (the feeds below are cut to this length).
MaxFeedLen == 2
\* Number of lines of the address field that are kept.
MaxUrls == 2
\* Number of executions of check in progress at the same time, a call of
\* init_plugin counting as one: under Spec the configuration is replaced
\* between executions and the two triggers do not overlap; SpecOverlap
\* lets both executions run together.
MaxRunning == 1

Min(a, b) == IF a < b THEN a ELSE b

Take(s, n) == SubSeq(s, 1, Min(n, Len(s)))

(***************************************************************************)
(* Text.  A text is a string; a pattern is a sequence of character         *)
(* classes (sets of one-character strings), the part of Python's regular   *)
(* expressions the configured rules of the model use: "hevc" is four       *)
(* singleton classes, "S0[1-2]" is <<{"S"}, {"0"}, {"1","2"}>>.  The empty *)
(* pattern <<>> is the empty string.                                       *)
(***************************************************************************)
Fold == [S |-> "s", E |-> "e", F |-> "f", H |-> "h", V |-> "v", C |-> "c"]

\* re.IGNORECASE: both sides are compared case-folded.
LowerChar(c) == IF c \in DOMAIN Fold THEN Fold[c] ELSE c

CharAt(text, i) == SubSeq(text, i, i)

MatchAt(pattern, text, i) ==
    \A k \in 1..Len(pattern) :
        LowerChar(CharAt(text, i + k - 1)) \in {LowerChar(c) : c \in pattern[k]}

\* re.search(pattern, text, re.IGNORECASE): a match at some offset.
re_search(pattern, text) ==
    \E i \in 1..(Len(text) - Len(pattern) + 1) : MatchAt(pattern, text, i)

Lit(s) == [k \in 1..Len(s) |-> {CharAt(s, k)}]

(***************************************************************************)
(* The feeds, and what the host's recogniser and catalogue make of their   *)
(* entries.  MetaInfo and recognize_media are the host's (app.core), not   *)
(* this repository's: they are given here as the answers they return for   *)
(* the titles of the model.                                                *)
(***************************************************************************)
Entry(t, d) == [title |-> t, description |-> d]

FeedContent(path) ==
    CASE path = "feedA" ->
            <<Entry("Show.S01E01", ""), Entry("Film.2020", "hevc"), Entry("???", "")>>
      [] path = "feedB" ->
            <<Entry("Show.S01E02", "HEVC"), Entry("Show.S01E01", ""), Entry("Film.2020", "hevc")>>
      [] path = "feedC" ->
            <<Entry("???", ""), Entry("Show.S01E01", ""), Entry("Show.S01E02", "HEVC")>>
      [] OTHER -> <<>>

\* MetaInfo(title=title, subtitle=description)
MetaInfo(title, subtitle) ==
    CASE title = "Show.S01E01" ->
            [name |-> "Show", begin_season |-> 1, season |-> "S01",
             episode_list |-> <<1>>, season_episode |-> "S01E01"]
      [] title = "Show.S01E02" ->
            [name |-> "Show", begin_season |-> 1, season |-> "S01",
             episode_list |-> <<2>>, season_episode |-> "S01E02"]
      [] title = "Film.2020" ->
            [name |-> "Film", begin_season |-> 0, season |-> "",
             episode_list |-> <<>>, season_episode |-> ""]
      [] OTHER ->
            [name |-> "", begin_season |-> 0, season |-> "",
             episode_list |-> <<>>, season_episode |-> ""]

\* The catalogue record recognize_media finds for a recognised name.
Catalog(name) ==
    IF name = "Show"
    THEN [title |-> "Show", type |-> "TV", tmdb_id |-> 1]
    ELSE [title |-> "Film", type |-> "Movie", tmdb_id |-> 2]

(***************************************************************************)
(* Feed urls.  A url is what urllib.parse makes of it: its address and     *)
(* the dict parse_qs returns for its query (parse_qs drops parameters      *)
(* with a blank value, so a key that is present holds a non-empty          *)
(* pattern).  A blank line of the address field has the empty path.        *)
(***************************************************************************)
Url(path, query) == [path |-> path, query |-> query]

BlankLine == Url("", <<>>)

\* query_params.get(key, [default])[0]
QueryGet(query, key, default) == IF key \in DOMAIN query THEN query[key] ELSE default

\* "S0[1-2]" and "S0[3-4]"
Season12 == <<{"S"}, {"0"}, {"1", "2"}>>
Season34 == <<{"S"}, {"0"}, {"3", "4"}>>

\* The values of the address field the configuration form submits: none; a
\* plain url, then one whose include parameter fits season 1; one whose
\* include parameter fits no entry, then a plain url; a blank line, then a
\* url with an exclude parameter.
AddressFields ==
    { <<>>,
      <<Url("feedA", <<>>), Url("feedB", [include |-> Season12]), Url("feedC", <<>>)>>,
      <<Url("feedB", [include |-> Season34]), Url("feedA", <<>>)>>,
      <<BlankLine, Url("feedC", [exclude |-> Lit("s01e01")]), Url("feedB", <<>>)>> }

\* The rules, the filter switch and the action submitted with them.
Setting(inc, exc, flt, act) ==
    [include |-> inc, exclude |-> exc, filter |-> flt, action |-> act]

Settings ==
    { Setting(<<>>, <<>>, FALSE, "subscribe"),
      Setting(<<>>, <<>>, FALSE, "download"),
      Setting(Lit("show"), Lit("hevc"), TRUE, "download"),
      Setting(<<>>, Lit("hevc"), TRUE, "subscribe"),
      Setting(Lit("show"), <<>>, FALSE, "subscribe") }

\* The configurations init_plugin is called with.
Configs ==
    { [enabled |-> e, onlyonce |-> o, clear |-> c, address |-> Take(a, MaxUrls),
       include |-> s.include, exclude |-> s.exclude, filter |-> s.filter,
       action |-> s.action] :
      e \in BOOLEAN, o \in BOOLEAN, c \in BOOLEAN, a \in AddressFields, s \in Settings }

\* rsshelper.parse(url): the entries of the feed when the fetch succeeds.
Fetched(url) == Take(FeedContent(url.path), MaxFeedLen)

(***************************************************************************)
(* History records (lines 769-778) and the answers of the services.        *)
(***************************************************************************)
\* HistoryRecord keyed by the display title instead of the raw title.
HistoryRecord_KeyedByDisplayTitle(title, meta, mediainfo) ==
    [title |-> mediainfo.title \o " " \o meta.season,
     key |-> mediainfo.title \o " " \o meta.season,
     type |-> mediainfo.type,
     tmdbid |-> mediainfo.tmdb_id]

HistoryRecord(title, meta, mediainfo) ==
    [title |-> mediainfo.title \o " " \o meta.season,
     key |-> title,
     type |-> mediainfo.type,
     tmdbid |-> mediainfo.tmdb_id]

Keys(hist) == {hist[i].key : i \in 1..Len(hist)}

Range(s) == {s[i] : i \in 1..Len(s)}

\* A season of the missing-map: the episodes that are missing (none listed
\* means the whole season).
Season(episodes) == [episodes |-> episodes]

\* downloadchain.get_no_exists_info: (exist_flag, no_exists), no_exists
\* keyed by tmdb id, then by season.
NoExistsInfo(mediainfo) ==
    IF mediainfo.type = "Movie"
    THEN {<<TRUE, <<>>>>, <<FALSE, <<>>>>}
    ELSE {<<TRUE, <<>>>>,
          <<FALSE, <<>>>>,
          <<FALSE, (mediainfo.tmdb_id :> (1 :> Season(<<>>)))>>,
          <<FALSE, (mediainfo.tmdb_id :> (1 :> Season(<<2>>)))>>,
          <<FALSE, (mediainfo.tmdb_id :> (1 :> Season(<<1, 2>>)))>>,
          <<FALSE, (mediainfo.tmdb_id :> (2 :> Season(<<1>>)))>>,
          <<FALSE, ((mediainfo.tmdb_id + 1) :> (1 :> Season(<<>>)))>>}

(***************************************************************************)
(* The gates of the entry loop of check, in the order of the code.  Each   *)
(* is TRUE when the code takes its `continue`.                             *)
(***************************************************************************)
\* Processed without the look-up in history.
Processed_TitleOnly(title, hist) == title = ""

\* line 670: if not title or title in [h.get("key") for h in history]
Processed(title, hist) == title = "" \/ title \in Keys(hist)

\* IncludeRejects with the test dropped.
IncludeRejects_Never(pattern, title, description) == FALSE

\* lines 673-674: if self._include and not re.search(self._include, f"{title} {description}")
IncludeRejects(pattern, title, description) ==
    pattern # <<>> /\ ~re_search(pattern, title \o " " \o description)

\* ExcludeRejects searching the title alone.
ExcludeRejects_TitleOnly(pattern, title, description) ==
    pattern # <<>> /\ re_search(pattern, title)

\* ExcludeRejects without the test `self._exclude and`: the search is made
\* with an empty pattern too.
ExcludeRejects_Unguarded(pattern, title, description) ==
    re_search(pattern, title \o " " \o description)

\* lines 677-678: if self._exclude and re.search(self._exclude, f"{title} {description}")
ExcludeRejects(pattern, title, description) ==
    pattern # <<>> /\ re_search(pattern, title \o " " \o description)

\* RangeRejects with the test dropped.
RangeRejects_Never(pattern, meta) == FALSE

\* lines 695-696: if url_include and not re.search(url_include, f"{meta.season_episode}")
RangeRejects(pattern, meta) ==
    pattern # <<>> /\ ~re_search(pattern, meta.season_episode)

\* ExistsRejects with the test dropped.
ExistsRejects_Never(exist_flag) == FALSE

\* line 725: if exist_flag
ExistsRejects(exist_flag) == exist_flag

\* EpisodeCheck without the comparison of the episodes (lines 737-740).
EpisodeCheck_SeasonOnly(no_exists, mediainfo, meta) ==
    LET season == IF meta.begin_season # 0 THEN meta.begin_season ELSE 1
    IN  IF DOMAIN no_exists = {} THEN "download"
        ELSE IF mediainfo.tmdb_id \notin DOMAIN no_exists THEN "error"
        ELSE IF season \notin DOMAIN no_exists[mediainfo.tmdb_id] THEN "season"
        ELSE "download"

\* lines 730-740, for a TV mediainfo under action download: "download" when
\* the code goes on to download_single, "season" and "episodes" for its two
\* `continue`s, "error" when exist_info is None and exist_info.get raises.
EpisodeCheck(no_exists, mediainfo, meta) ==
    LET season == IF meta.begin_season # 0 THEN meta.begin_season ELSE 1
    IN  IF DOMAIN no_exists = {} THEN "download"
        ELSE IF mediainfo.tmdb_id \notin DOMAIN no_exists THEN "error"
        ELSE LET exist_info == no_exists[mediainfo.tmdb_id]
             IN  IF season \notin DOMAIN exist_info THEN "season"
                 ELSE LET season_info == exist_info[season]
                      IN  IF /\ season_info.episodes # <<>>
                             /\ ~(Range(meta.episode_list) \subseteq Range(season_info.episodes))
                          THEN "episodes"
                          ELSE "download"

(***************************************************************************)
(* One pass of the body of `for result in results` (lines 662-780): the    *)
(* set of its possible outcomes, one per combination of answers of the     *)
(* services it consults.  An outcome names the branch taken, the service   *)
(* calls made with an effect outside the plugin (calls), the records       *)
(* appended to history (added) and the answers it was given.               *)
(***************************************************************************)
Outcome ==
    [op |-> "entry", by |-> "", title |-> "", description |-> "", outcome |-> "",
     calls |-> <<>>,
     added |-> <<>>, type |-> "", exist_flag |-> "", no_exists |-> <<>>,
     download |-> "", subflag |-> "", success |-> ""]

Skip(o, why) == [o EXCEPT !.outcome = why]

\* lines 768-778
Record(o, title, meta, mediainfo) ==
    [o EXCEPT !.added = <<HistoryRecord(title, meta, mediainfo)>>]

\* Download without the `continue` of line 753: a failed download is
\* recorded too.
Download_RecordsFailure(o, title, meta, mediainfo) ==
    LET called == [o EXCEPT !.calls = Append(@, "download_single")]
    IN  { Record([called EXCEPT !.download = "failed", !.outcome = "download failed"],
                 title, meta, mediainfo),
          Record([called EXCEPT !.download = "ok", !.outcome = "downloaded"],
                 title, meta, mediainfo) }

\* lines 741-753
Download(o, title, meta, mediainfo) ==
    LET called == [o EXCEPT !.calls = Append(@, "download_single")]
    IN  { Skip([called EXCEPT !.download = "failed"], "download failed"),
          Record([called EXCEPT !.download = "ok", !.outcome = "downloaded"],
                 title, meta, mediainfo) }

\* Subscribe without the `continue` of line 759: the add is made whatever
\* subscribechain.exists answers.
Subscribe_AddsAnyway(o, title, meta, mediainfo) ==
    { Record([o EXCEPT !.subflag = flag, !.calls = Append(@, "add"),
                       !.outcome = "subscribed"],
             title, meta, mediainfo) : flag \in {"yes", "no"} }

\* lines 754-767
Subscribe(o, title, meta, mediainfo) ==
    { Skip([o EXCEPT !.subflag = "yes"], "subscribing"),
      Record([o EXCEPT !.subflag = "no", !.calls = Append(@, "add"),
                       !.outcome = "subscribed"],
             title, meta, mediainfo) }

\* lines 729-767
Dispatch(o, title, meta, mediainfo, no_exists, act) ==
    IF act = "download"
    THEN LET chk == IF mediainfo.type = "TV"
                    THEN EpisodeCheck(no_exists, mediainfo, meta)
                    ELSE "download"
         IN  CASE chk = "error" -> {Skip(o, "error")}
               [] chk = "season" -> {Skip(o, "season exists")}
               [] chk = "episodes" -> {Skip(o, "episodes exist")}
               [] OTHER -> Download(o, title, meta, mediainfo)
    ELSE Subscribe(o, title, meta, mediainfo)

\* lines 723-767
CheckExists(o, title, meta, mediainfo, act) ==
    UNION { LET seen == [o EXCEPT !.exist_flag = IF info[1] THEN "yes" ELSE "no",
                                  !.no_exists = info[2]]
            IN  IF ExistsRejects(info[1])
                THEN {Skip(seen, "exists")}
                ELSE Dispatch(seen, title, meta, mediainfo, info[2], act)
          : info \in NoExistsInfo(mediainfo) }

\* lines 713-722: filter_torrents returns the list of torrents kept
FilterTorrents(o, title, meta, mediainfo, flt, act) ==
    IF flt
    THEN {Skip(o, "filtered")} \cup CheckExists(o, title, meta, mediainfo, act)
    ELSE CheckExists(o, title, meta, mediainfo, act)

\* lines 699-702: recognize_media returns the catalogue record or None
Recognize(o, title, meta, flt, act) ==
    LET mediainfo == Catalog(meta.name)
    IN  {Skip(o, "no media")}
        \cup FilterTorrents([o EXCEPT !.type = mediainfo.type], title, meta,
                            mediainfo, flt, act)

\* lines 662-780
ProcessResult(result, hist, inc, exc, url_inc, flt, act) ==
    LET title == result.title
        description == result.description
        meta == MetaInfo(title, description)
        o == [Outcome EXCEPT !.title = title, !.description = description]
    IN  IF Processed(title, hist) THEN {Skip(o, "processed")}
        ELSE IF IncludeRejects(inc, title, description) THEN {Skip(o, "include")}
        ELSE IF ExcludeRejects(exc, title, description) THEN {Skip(o, "exclude")}
        ELSE IF meta.name = "" THEN {Skip(o, "no name")}
        ELSE IF RangeRejects(url_inc, meta) THEN {Skip(o, "range")}
        ELSE Recognize(o, title, meta, flt, act)

(***************************************************************************)
(* The state machine.                                                      *)
(***************************************************************************)
\* The two executions of check: the plugin's one-shot date job (line 99)
\* and the host's scheduled service (lines 160-175).
Threads == {"once", "cron"}

\* settings.API_TOKEN, and the apikey values a caller sends
API_TOKEN == "token"
ApiKeys == {"token", "wrong"}

\* The keys delete_history is called with: display titles, a raw title and
\* a key no record carries.
DeleteKeys == {"Show S01", "Film ", "Show.S01E01", "nothing"}

\* What is kept of a running cycle: whether it started with the clear flag
\* set, how many records it loaded, how many times it saved.
Idle == [cleared |-> FALSE, loaded |-> 0, saves |-> 0]

\* The executions of check that are between their start and their return.
Running == {q \in Threads : pc[q] # "idle"}

\* Lines 57-68: the class attributes, before any init_plugin.
Init ==
    /\ _enabled = FALSE
    /\ _onlyonce = FALSE
    /\ _clear = FALSE
    /\ _clearflag = FALSE
    /\ _address = <<>>
    /\ _include = <<>>
    /\ _exclude = <<>>
    /\ _filter = FALSE
    /\ _action = "subscribe"
    /\ job = FALSE
    /\ store = <<>>
    /\ pc = [p \in Threads |-> "idle"]
    /\ urls = [p \in Threads |-> <<>>]
    /\ ui = [p \in Threads |-> 0]
    /\ url_include = [p \in Threads |-> <<>>]
    /\ ri = [p \in Threads |-> 0]
    /\ history = [p \in Threads |-> <<>>]
    /\ cycle = [p \in Threads |-> Idle]
    /\ last = [Outcome EXCEPT !.op = "init"]

\* Lines 71-117.  stop_service (lines 586-597) removes the waiting one-shot
\* job and shuts the scheduler down, which waits for a running job: the
\* call goes on once the one-shot execution has returned.
init_plugin(config, cap) ==
    /\ pc["once"] = "idle"
    /\ Cardinality(Running) < cap
    /\ _enabled' = config.enabled
    /\ _address' = config.address
    /\ _include' = config.include
    /\ _exclude' = config.exclude
    /\ _filter' = config.filter
    /\ _action' = config.action
    /\ job' = config.onlyonce
    /\ IF config.onlyonce \/ config.clear
       THEN /\ _onlyonce' = FALSE
            /\ _clearflag' = config.clear
            /\ _clear' = FALSE
       ELSE /\ _onlyonce' = config.onlyonce
            /\ _clear' = config.clear
            /\ UNCHANGED _clearflag
    /\ last' = [Outcome EXCEPT !.op = "init_plugin",
                               !.outcome = IF config.clear THEN "clear" ELSE ""]
    /\ UNCHANGED <<store, local_vars, cycle>>

\* init_plugin(None): lines 81-93 are skipped and lines 96-117 act on the
\* attributes as they are.
init_plugin_none(cap) ==
    /\ pc["once"] = "idle"
    /\ Cardinality(Running) < cap
    /\ job' = _onlyonce
    /\ IF _onlyonce \/ _clear
       THEN /\ _onlyonce' = FALSE
            /\ _clearflag' = _clear
            /\ _clear' = FALSE
       ELSE UNCHANGED <<_onlyonce, _clear, _clearflag>>
    /\ last' = [Outcome EXCEPT !.op = "init_plugin",
                               !.outcome = IF _clear THEN "clear" ELSE ""]
    /\ UNCHANGED <<_enabled, _address, _include, _exclude, _filter, _action,
                   store, local_vars, cycle>>

\* Lines 599-612.
delete_history(key, apikey) ==
    /\ IF apikey # API_TOKEN
       THEN /\ last' = [Outcome EXCEPT !.op = "delete_history", !.title = key,
                                       !.success = "False", !.outcome = "apikey"]
            /\ UNCHANGED store
       ELSE IF store = <<>>
       THEN /\ last' = [Outcome EXCEPT !.op = "delete_history", !.title = key,
                                       !.success = "False", !.outcome = "not found"]
            /\ UNCHANGED store
       ELSE /\ store' = SelectSeq(store, LAMBDA h : h.title # key)
            /\ last' = [Outcome EXCEPT !.op = "delete_history", !.title = key,
                                       !.success = "True", !.outcome = "deleted",
                                       !.calls = <<"save_data">>]
    /\ UNCHANGED <<config_vars, _clearflag, job, local_vars, cycle>>

\* The locals of an execution that has returned.
Return(p) ==
    /\ pc' = [pc EXCEPT ![p] = "idle"]
    /\ urls' = [urls EXCEPT ![p] = <<>>]
    /\ ui' = [ui EXCEPT ![p] = 0]
    /\ url_include' = [url_include EXCEPT ![p] = <<>>]
    /\ ri' = [ri EXCEPT ![p] = 0]
    /\ history' = [history EXCEPT ![p] = <<>>]

\* The step of `for url in ...` to the url after index i, or past the loop
\* to line 783.
NextUrl(p, i) ==
    /\ pc' = [pc EXCEPT ![p] = IF i < Len(urls[p]) THEN "url" ELSE "save"]
    /\ ui' = [ui EXCEPT ![p] = i + 1]
    /\ url_include' = [url_include EXCEPT ![p] = <<>>]
    /\ ri' = [ri EXCEPT ![p] = 0]

\* Load dropping the stored records whatever the flag.
Load_Empty(clearflag, stored) == <<>>

\* Lines 640-643: the working history an execution starts from.
Load(clearflag, stored) == IF clearflag THEN <<>> ELSE stored

\* Lines 633-643: an execution of check starts; it returns at once when no
\* address is configured, else it reads the history.
check_start(p, cap) ==
    /\ pc[p] = "idle"
    /\ Cardinality(Running) < cap
    /\ IF p = "once" THEN job ELSE _enabled
    /\ job' = IF p = "once" THEN FALSE ELSE job
    /\ IF _address = <<>>
       THEN /\ last' = [Outcome EXCEPT !.op = "check", !.by = p, !.outcome = "no address"]
            /\ UNCHANGED <<local_vars, cycle>>
       ELSE /\ history' = [history EXCEPT ![p] = Load(_clearflag, store)]
            /\ urls' = [urls EXCEPT ![p] = _address]
            /\ ui' = [ui EXCEPT ![p] = 1]
            /\ pc' = [pc EXCEPT ![p] = "url"]
            /\ cycle' = [cycle EXCEPT ![p] =
                            [cleared |-> _clearflag,
                             loaded |-> IF _clearflag THEN 0 ELSE Len(store),
                             saves |-> 0]]
            /\ last' = [Outcome EXCEPT !.op = "check", !.by = p, !.outcome = "loaded"]
            /\ UNCHANGED <<url_include, ri>>
    /\ UNCHANGED <<config_vars, _clearflag, store>>

\* Lines 644-659: the head of the url loop for the current url.  The
\* url_exclude of line 649 is assigned and never read (the rules that read
\* it, lines 681-689, are commented out), so the execution keeps no such
\* local.
check_url(p) ==
    /\ pc[p] = "url"
    /\ LET url == urls[p][ui[p]]
       IN  IF url.path = ""
           THEN /\ NextUrl(p, ui[p])
                /\ last' = [Outcome EXCEPT !.op = "url", !.by = p, !.outcome = "blank"]
                /\ UNCHANGED <<urls, history, cycle>>
           ELSE \E fetched \in BOOLEAN :
                  IF ~fetched
                  THEN /\ Return(p)
                       /\ cycle' = [cycle EXCEPT ![p] = Idle]
                       /\ last' = [Outcome EXCEPT !.op = "url", !.by = p, !.outcome = "no data"]
                  ELSE /\ pc' = [pc EXCEPT ![p] = "entry"]
                       /\ ri' = [ri EXCEPT ![p] = 1]
                       /\ url_include' = [url_include EXCEPT ![p] =
                                             QueryGet(url.query, "include", _include)]
                       /\ last' = [Outcome EXCEPT !.op = "url", !.by = p, !.outcome = "fetched"]
                       /\ UNCHANGED <<urls, ui, history, cycle>>
    /\ UNCHANGED <<config_vars, _clearflag, job, store>>

\* Caught for a handler that catches nothing.
Caught_Nothing(o) == FALSE

\* Lines 662 and 779-780: the try block spans the whole body of the entry
\* loop and `except Exception` catches whatever it raises.
Caught(o) == o.outcome = "error"

\* The step of `for result in results` to the result after the current one,
\* or past the loop to the next url.
NextResult(p, results) ==
    IF ri[p] < Len(results)
    THEN /\ ri' = [ri EXCEPT ![p] = @ + 1]
         /\ UNCHANGED <<pc, ui, url_include>>
    ELSE NextUrl(p, ui[p])

\* StoredAfterAppend for an append that writes the list through.
StoredAfterAppend_WriteThrough(stored, hist) == hist

\* Lines 768-778: history.append acts on the local list; the plugin data
\* stays as it is until line 783.
StoredAfterAppend(stored, hist) == stored

\* Lines 661-781: the body of the entry loop for the current result.  An
\* exception the handler does not catch leaves check.
check_entry(p) ==
    /\ pc[p] = "entry"
    /\ LET results == Fetched(urls[p][ui[p]])
       IN  \E o \in ProcessResult(results[ri[p]], history[p], _include, _exclude,
                                  url_include[p], _filter, _action) :
             /\ last' = [o EXCEPT !.by = p]
             /\ IF o.outcome = "error" /\ ~Caught(o)
                THEN /\ Return(p)
                     /\ cycle' = [cycle EXCEPT ![p] = Idle]
                     /\ UNCHANGED store
                ELSE /\ history' = [history EXCEPT ![p] = @ \o o.added]
                     /\ store' = StoredAfterAppend(store, history[p] \o o.added)
                     /\ NextResult(p, results)
                     /\ UNCHANGED <<urls, cycle>>
    /\ UNCHANGED <<config_vars, _clearflag, job>>

\* Line 783.
check_save(p) ==
    /\ pc[p] = "save"
    /\ store' = history[p]
    /\ pc' = [pc EXCEPT ![p] = "reset"]
    /\ cycle' = [cycle EXCEPT ![p].saves = @ + 1]
    /\ last' = [Outcome EXCEPT !.op = "save", !.by = p, !.calls = <<"save_data">>]
    /\ UNCHANGED <<config_vars, _clearflag, job, urls, ui, url_include, ri, history>>

\* Line 785, and the return of check.
check_reset(p) ==
    /\ pc[p] = "reset"
    /\ _clearflag' = FALSE
    /\ Return(p)
    /\ cycle' = [cycle EXCEPT ![p] = Idle]
    /\ last' = [Outcome EXCEPT !.op = "done", !.by = p]
    /\ UNCHANGED <<config_vars, job, store>>

Next ==
    \/ \E config \in Configs : init_plugin(config, MaxRunning)
    \/ init_plugin_none(MaxRunning)
    \/ \E key \in DeleteKeys, apikey \in ApiKeys : delete_history(key, apikey)
    \/ \E p \in Threads : check_start(p, MaxRunning)
    \/ \E p \in Threads : check_url(p)
    \/ \E p \in Threads : check_entry(p)
    \/ \E p \in Threads : check_save(p)
    \/ \E p \in Threads : check_reset(p)

Spec == Init /\ [][Next]_vars

\* The configurations of SpecOverlap: one address of one url and one
\* setting, with every combination of the switches.
OverlapConfigs ==
    { [enabled |-> e, onlyonce |-> o, clear |-> c, address |-> <<Url("feedA", <<>>)>>,
       include |-> <<>>, exclude |-> <<>>, filter |-> FALSE, action |-> "subscribe"] :
      e \in BOOLEAN, o \in BOOLEAN, c \in BOOLEAN }

\* The same operations with nothing keeping the two executions of check, or
\* init_plugin and the scheduled execution, apart: the code takes no lock.
NextOverlap ==
    \/ \E config \in OverlapConfigs : init_plugin(config, Cardinality(Threads) + 1)
    \/ init_plugin_none(Cardinality(Threads) + 1)
    \/ \E key \in DeleteKeys, apikey \in ApiKeys : delete_history(key, apikey)
    \/ \E p \in Threads : check_start(p, Cardinality(Threads))
    \/ \E p \in Threads : check_url(p)
    \/ \E p \in Threads : check_entry(p)
    \/ \E p \in Threads : check_save(p)
    \/ \E p \in Threads : check_reset(p)

SpecOverlap == Init /\ [][NextOverlap]_vars

(***************************************************************************)
(* Properties.  `last` describes the step that led to the current state,   *)
(* so a state predicate on `last` speaks of every step of that kind.       *)
(***************************************************************************)
\* The step is one pass of the entry loop by execution p.
EntryStep(p) == pc[p] = "entry" /\ <<pc[p], ri[p]>> # <<pc'[p], ri'[p]>>

\* The entry execution p is about to process.
Current(p) == Fetched(urls[p][ui[p]])[ri[p]]

\* The keys of the records execution p read from the store at its start.
LoadedKeys(p) == Keys(SubSeq(history[p], 1, cycle[p].loaded))

Dispatched(o) == o.calls # <<>>

\* The cycle of execution p ends with this step.
CycleEnds(p) == pc[p] # "idle" /\ pc'[p] = "idle"

\* C1: an entry whose raw title is a key of the history that check loaded
\* is not dispatched (no download_single, no subscription add) and adds no
\* record.
C1_LoadedKeyNeverDispatched ==
    [][\A p \in Threads :
          EntryStep(p) /\ Current(p).title \in LoadedKeys(p)
          => ~Dispatched(last') /\ history'[p] = history[p]]_vars

\* Reached: an entry was skipped as processed because its title was loaded.
C1_Witness ==
    /\ last.op = "entry"
    /\ last.outcome = "processed"
    /\ last.title \in LoadedKeys(last.by)

\* C2: a url whose fetch yields no entries is skipped alone; the execution
\* goes on to the next url (or to the save) and does not return.
C2_EmptyFetchSkipsOnlyThatUrl ==
    last.op = "url" /\ last.outcome = "no data" => pc[last.by] \in {"url", "save"}

\* C3: every cycle ends having written the history exactly once.
C3_EveryCycleSavesOnce ==
    [][\A p \in Threads : CycleEnds(p) => cycle[p].saves = 1]_vars

\* C4: a cycle that starts with the clear flag set starts from the empty
\* history and ends with the flag off.
C4_ClearIsOneShot ==
    [][\A p \in Threads :
          /\ (pc[p] = "idle" /\ pc'[p] = "url" /\ _clearflag => history'[p] = <<>>)
          /\ (CycleEnds(p) /\ cycle[p].cleared => ~_clearflag')]_vars

\* The executions of check between their history load and their history save.
InCycle == {p \in Threads : pc[p] \in {"url", "entry", "save"}}

\* C5: at most one execution of check is between its history load and its
\* history save.
C5_OneCycleAtATime == Cardinality(InCycle) <= 1

\* C6: delete_history with the valid token and a key that no stored record
\* carries (neither as display title nor as raw title) reports failure and
\* does not write the store.
C6_DeleteMissingKeyNotFound ==
    [][/\ last'.op = "delete_history"
       /\ last'.outcome # "apikey"
       /\ \A i \in 1..Len(store) : last'.title \notin {store[i].title, store[i].key}
       => last'.success = "False" /\ last'.calls = <<>> /\ store' = store]_vars

\* C7: an entry for which the global exclude pattern matches
\* title + " " + description is not dispatched and adds no record, whether
\* or not the include pattern matches.
C7_ExcludeMatchSkips ==
    /\ last.op = "entry"
    /\ _exclude # <<>>
    /\ re_search(_exclude, last.title \o " " \o last.description)
    => ~Dispatched(last) /\ last.added = <<>>

\* Reached: an entry that the include pattern matches was skipped by the
\* exclude rule.
C7_Witness ==
    /\ last.op = "entry"
    /\ last.outcome = "exclude"
    /\ _include # <<>>
    /\ re_search(_include, last.title \o " " \o last.description)

\* C8: a movie that get_no_exists_info reports as existing is not dispatched
\* and adds no record, under either action.
C8_ExistingMovieSkipped ==
    last.op = "entry" /\ last.type = "Movie" /\ last.exist_flag = "yes"
    => ~Dispatched(last) /\ last.added = <<>>

\* Reached: an existing movie was met under action download.
C8_Witness ==
    /\ last.op = "entry"
    /\ last.type = "Movie"
    /\ last.exist_flag = "yes"
    /\ _action = "download"

\* C9: when download_single fails the entry adds no record and its title is
\* no key of the history; when it succeeds one record keyed by the raw
\* title is appended.
C9_DownloadResultDecidesRecord ==
    last.op = "entry" /\ last.calls = <<"download_single">>
    => LET hist == history[last.by]
       IN  IF last.download = "failed"
           THEN last.added = <<>> /\ last.title \notin Keys(hist)
           ELSE /\ last.download = "ok"
                /\ Len(last.added) = 1
                /\ last.added[1].key = last.title
                /\ hist # <<>>
                /\ hist[Len(hist)] = last.added[1]

\* Reached: a download failed.
C9_Witness ==
    /\ last.op = "entry"
    /\ last.calls = <<"download_single">>
    /\ last.download = "failed"

\* The answer of get_no_exists_info lists, for the season of the entry's
\* media, episodes that do not include every episode of the entry.
EpisodesNotCovered(o) ==
    LET meta == MetaInfo(o.title, o.description)
        tmdb_id == Catalog(meta.name).tmdb_id
        season == IF meta.begin_season # 0 THEN meta.begin_season ELSE 1
    IN  /\ tmdb_id \in DOMAIN o.no_exists
        /\ season \in DOMAIN o.no_exists[tmdb_id]
        /\ o.no_exists[tmdb_id][season].episodes # <<>>
        /\ \E e \in Range(meta.episode_list) :
              e \notin Range(o.no_exists[tmdb_id][season].episodes)

\* C10: a series entry under action download whose season entry of the
\* missing-map lists episodes that miss one of the entry's episodes is
\* skipped: no download_single, no record.
C10_UncoveredEpisodeSkipped ==
    /\ last.op = "entry"
    /\ last.type = "TV"
    /\ last.exist_flag = "no"
    /\ _action = "download"
    /\ EpisodesNotCovered(last)
    => ~Dispatched(last) /\ last.added = <<>>

\* Reached: such an entry was skipped for its episodes.
C10_Witness ==
    /\ last.op = "entry"
    /\ last.outcome = "episodes exist"
    /\ _action = "download"
    /\ EpisodesNotCovered(last)

\* The loop of execution p moves from the current result to the one after
\* it: the next result of the same url, else the next url, else the save.
StepsToNextResult(p) ==
    IF ri[p] < Len(Fetched(urls[p][ui[p]]))
    THEN pc'[p] = "entry" /\ ui'[p] = ui[p] /\ ri'[p] = ri[p] + 1
    ELSE /\ ui'[p] = ui[p] + 1
         /\ pc'[p] = IF ui[p] < Len(urls[p]) THEN "url" ELSE "save"

UniqueKeys(hist) ==
    \A i, j \in 1..Len(hist) : hist[i].key = hist[j].key => i = j

\* C12: no two records of the persisted history share their key (the raw
\* title), and neither do two records of the working history of a running
\* cycle, from which the persisted history is written.
C12_HistoryKeysUnique ==
    /\ UniqueKeys(store)
    /\ \A p \in Threads : UniqueKeys(history[p])

\* Reached: with two records persisted, an entry was skipped as processed
\* because an earlier url of the same cycle had recorded its title.
C12_Witness ==
    /\ last.op = "entry"
    /\ last.outcome = "processed"
    /\ last.title # ""
    /\ last.title \notin LoadedKeys(last.by)
    /\ Len(store) >= 2

\* C13: a cycle that starts with the clear flag unset starts from every
\* persisted record, and its save writes all the records it started from,
\* in their order, before those it added.
C13_UnclearedCycleKeepsHistory ==
    [][\A p \in Threads :
          /\ (pc[p] = "idle" /\ pc'[p] = "url" /\ ~_clearflag => history'[p] = store)
          /\ (pc[p] = "save" /\ pc'[p] = "reset" /\ ~cycle[p].cleared
                => /\ Len(store') >= cycle[p].loaded
                   /\ SubSeq(store', 1, cycle[p].loaded)
                        = SubSeq(history[p], 1, cycle[p].loaded))]_vars

\* Reached: a cycle that loaded a record with the flag unset has saved, and
\* added a record of its own.
C13_Witness ==
    /\ last.op = "save"
    /\ pc[last.by] = "reset"
    /\ ~cycle[last.by].cleared
    /\ cycle[last.by].loaded >= 1
    /\ Len(store) > cycle[last.by].loaded

\* The url execution p is working on, and what the recogniser makes of the
\* entry it is about to process.
CurrentUrl(p) == urls[p][ui[p]]

CurrentMeta(p) == MetaInfo(Current(p).title, Current(p).description)

\* The pass appended exactly one record, keyed by the raw title of the entry.
AppendsOneRecord(p) ==
    /\ Len(history'[p]) = Len(history[p]) + 1
    /\ SubSeq(history'[p], 1, Len(history[p])) = history[p]
    /\ history'[p][Len(history'[p])].key = Current(p).title

\* C14: under a url that carries an include parameter, an entry whose
\* season/episode descriptor the parameter does not match is not dispatched
\* and adds no record; one that it matches and that reaches the question
\* whether it is subscribed, with the answer no, makes exactly one
\* subscription add and appends exactly one record keyed by its raw title.
C14_UrlIncludeDecidesByDescriptor ==
    [][\A p \in Threads :
          EntryStep(p) /\ "include" \in DOMAIN CurrentUrl(p).query
          => IF ~re_search(CurrentUrl(p).query.include, CurrentMeta(p).season_episode)
             THEN ~Dispatched(last') /\ history'[p] = history[p]
             ELSE _action = "subscribe" /\ last'.subflag = "no"
                  => last'.calls = <<"add">> /\ AppendsOneRecord(p)]_vars

\* Reached: under a url with an include parameter, the first entry matched
\* the parameter and was subscribed.
C14_Witness ==
    /\ last.op = "entry"
    /\ last.outcome = "subscribed"
    /\ pc[last.by] = "entry"
    /\ "include" \in DOMAIN CurrentUrl(last.by).query
    /\ re_search(CurrentUrl(last.by).query.include,
                 MetaInfo(last.title, last.description).season_episode)

\* C15: the entries of a url that carries an exclude parameter are held
\* against that parameter: one whose title + " " + description the
\* parameter matches is not dispatched and adds no record.
C15_UrlExcludeOverridesGlobal ==
    [][\A p \in Threads :
          /\ EntryStep(p)
          /\ "exclude" \in DOMAIN CurrentUrl(p).query
          /\ re_search(CurrentUrl(p).query.exclude,
                       Current(p).title \o " " \o Current(p).description)
          => ~Dispatched(last') /\ history'[p] = history[p]]_vars

\* C16: under action subscribe, an entry for which subscribechain.exists
\* reports a subscription makes no add call and adds no record; one for
\* which it reports none makes exactly one add call (and no other call).
C16_ExistingSubscriptionNotAdded ==
    last.op = "entry" /\ last.subflag # ""
    => IF last.subflag = "yes"
       THEN last.calls = <<>> /\ last.added = <<>>
       ELSE last.calls = <<"add">>

\* Reached: an entry was found subscribed already.
C16_Witness ==
    /\ last.op = "entry"
    /\ last.subflag = "yes"
    /\ last.outcome = "subscribing"
    /\ _action = "subscribe"

\* C17: a pass of the entry loop appends a record exactly when it
\* dispatched the entry (download_single answered success, or the
\* subscription add was called); it appends one record at most, keyed by
\* the raw title of the entry; a pass that skipped the entry appends none.
C17_RecordIffDispatched ==
    last.op = "entry"
    => /\ last.added # <<>> <=> (last.download = "ok" \/ "add" \in Range(last.calls))
       /\ Len(last.added) <= 1
       /\ last.added # <<>>
            => LET hist == history[last.by]
               IN  /\ last.added[1].key = last.title
                   /\ hist # <<>>
                   /\ hist[Len(hist)] = last.added[1]

\* Reached: a subscription add was recorded after an earlier record.
C17_Witness ==
    /\ last.op = "entry"
    /\ last.outcome = "subscribed"
    /\ last.added # <<>>
    /\ Len(history[last.by]) >= 2

\* C18: delete_history with a token other than the configured one reports
\* the authorization failure and leaves the persisted history as it is;
\* with the valid token it removes the record the key matches and reports
\* success when there is one, and reports failure when there is none.
C18_DeleteByTokenAndMatch ==
    [][last'.op = "delete_history"
       => IF last'.outcome = "apikey"
          THEN last'.success = "False" /\ last'.calls = <<>> /\ store' = store
          ELSE IF \E i \in 1..Len(store) : store[i].title = last'.title
          THEN /\ last'.success = "True"
               /\ \A i \in 1..Len(store') : store'[i].title # last'.title
          ELSE last'.success = "False" /\ store' = store]_vars

\* C19: under a url that carries no include parameter no entry is skipped
\* by the season/episode test: the global include pattern is held against
\* title and description only, never against the descriptor.
C19_GlobalIncludeNotUsedOnDescriptor ==
    [][\A p \in Threads :
          EntryStep(p) /\ "include" \notin DOMAIN CurrentUrl(p).query
          => last'.outcome # "range"]_vars

\* The answer of get_no_exists_info has no entry for the season of the
\* entry (season 1 when none is recognised): the map is empty, or has no
\* entry for the media's catalogue id, or none for the season under it.
SeasonAbsent(o) ==
    LET meta == MetaInfo(o.title, o.description)
        tmdb_id == Catalog(meta.name).tmdb_id
        season == IF meta.begin_season # 0 THEN meta.begin_season ELSE 1
    IN  \/ tmdb_id \notin DOMAIN o.no_exists
        \/ season \notin DOMAIN o.no_exists[tmdb_id]

\* C20: a series entry under action download that is reported as not
\* existing and whose season is absent from the missing-map is skipped: no
\* download_single, no record.
C20_AbsentSeasonSkipped ==
    /\ last.op = "entry"
    /\ last.type = "TV"
    /\ last.exist_flag = "no"
    /\ _action = "download"
    /\ SeasonAbsent(last)
    => ~Dispatched(last) /\ last.added = <<>>

\* C21: a delete_history that reports success removes one record at most
\* and leaves the others as they are: records that share the display title
\* of the record removed are kept.
C21_DeleteRemovesSingleRecord ==
    [][last'.op = "delete_history" /\ last'.success = "True"
       => \/ store' = store
          \/ \E i \in 1..Len(store) :
                store' = SubSeq(store, 1, i - 1) \o SubSeq(store, i + 1, Len(store))]_vars

\* C22: with the empty global include pattern no entry is skipped by the
\* include rule, and with the empty global exclude pattern none is skipped
\* by the exclude rule.
C22_EmptyPatternInactive ==
    last.op = "entry"
    => /\ _include = <<>> => last.outcome # "include"
       /\ _exclude = <<>> => last.outcome # "exclude"

\* Reached: with both patterns empty, an entry with a description went past
\* both rules and was dispatched.
C22_Witness ==
    /\ last.op = "entry"
    /\ _include = <<>>
    /\ _exclude = <<>>
    /\ last.description # ""
    /\ Dispatched(last)

\* The outcomes of a pass that took one of the `continue`s of a gate.
GateSkips ==
    {"processed", "include", "exclude", "no name", "range", "no media",
     "filtered", "exists"}

\* The first of the gates decided by the entry and the configuration alone
\* that stops the entry execution p is about to process ("" when none does).
FirstGateFailed(p) ==
    LET e == Current(p)
        text == e.title \o " " \o e.description
    IN  IF e.title = "" \/ e.title \in Keys(history[p]) THEN "processed"
        ELSE IF _include # <<>> /\ ~re_search(_include, text) THEN "include"
        ELSE IF _exclude # <<>> /\ re_search(_exclude, text) THEN "exclude"
        ELSE IF CurrentMeta(p).name = "" THEN "no name"
        ELSE IF /\ url_include[p] # <<>>
                /\ ~re_search(url_include[p], CurrentMeta(p).season_episode)
             THEN "range"
        ELSE ""

\* C23: a pass of the entry loop that dispatches its entry has found it
\* past dedup, include, exclude, name recognition and the season/episode
\* test, with its media resolved and reported as not existing; an entry
\* stopped by one of the first five gates is skipped at the first that
\* stops it; and a pass that skips at a gate adds no record and leaves the
\* loop at the next result.
C23_DispatchOnlyPastEveryGate ==
    [][\A p \in Threads :
          EntryStep(p)
          => /\ Dispatched(last')
                  => /\ FirstGateFailed(p) = ""
                     /\ last'.type # ""
                     /\ last'.exist_flag = "no"
                     /\ last'.outcome \notin GateSkips
             /\ FirstGateFailed(p) # "" => last'.outcome = FirstGateFailed(p)
             /\ last'.outcome \in GateSkips
                  => /\ ~Dispatched(last')
                     /\ history'[p] = history[p]
                     /\ StepsToNextResult(p)]_vars

\* Reached: with include, exclude and the torrent filter all set, under a
\* url with an include parameter, an entry went past every gate and was
\* downloaded.
C23_Witness ==
    /\ last.op = "entry"
    /\ last.outcome = "downloaded"
    /\ _include # <<>>
    /\ _exclude # <<>>
    /\ _filter

\* The step is a step of execution p of check other than its save.
CheckStepBeforeSave(p) ==
    pc[p] # "save" /\ <<pc[p], ui[p], ri[p]>> # <<pc'[p], ui'[p], ri'[p]>>

\* C24: no step of check other than its final save writes the persisted
\* history: starting, fetching, processing an entry and returning early
\* all leave it as it is.
C24_NoWriteBeforeSave ==
    [][\A p \in Threads : CheckStepBeforeSave(p) => store' = store]_vars

\* Reached: a cycle stands before its save with a record appended to its
\* working history that the persisted history does not hold.
C24_Witness ==
    \E p \in Threads :
        /\ pc[p] = "save"
        /\ Len(history[p]) > cycle[p].loaded
        /\ store # <<>>
        /\ history[p] # store

\* C25: the save of a cycle does not bring back a record that was deleted
\* while the cycle was running: a record the cycle loaded and that the
\* persisted history no longer holds just before the save is not in the
\* persisted history after it.
C25_SaveKeepsConcurrentDelete ==
    [][\A p \in Threads :
          pc[p] = "save" /\ pc'[p] = "reset"
          => \A i \in 1..cycle[p].loaded :
                history[p][i] \notin Range(store) => history[p][i] \notin Range(store')]_vars

\* C26: a clear request is not cancelled by a later init_plugin: when
\* init_plugin has just been applied with clear set and the next thing to
\* happen is another init_plugin, before any cycle has started, the clear
\* flag is still set afterwards.
C26_ClearSurvivesReload ==
    [][/\ last.op = "init_plugin"
       /\ last.outcome = "clear"
       /\ last'.op = "init_plugin"
       => _clearflag']_vars

\* The raw titles execution p has dispatched and recorded since it loaded
\* the history (by C17 a record is appended exactly on a dispatch).
DispatchedKeys(p) ==
    Keys(SubSeq(history[p], cycle[p].loaded + 1, Len(history[p])))

\* C27: an entry whose raw title the running cycle has already dispatched
\* and recorded, under this url or an earlier one, is not dispatched again
\* and adds no second record.
C27_NoSecondDispatchInCycle ==
    [][\A p \in Threads :
          EntryStep(p) /\ Current(p).title \in DispatchedKeys(p)
          => ~Dispatched(last') /\ history'[p] = history[p]]_vars

\* Reached: under action download, a title downloaded earlier in the cycle
\* came up again and was skipped.
C27_Witness ==
    /\ last.op = "entry"
    /\ last.outcome = "processed"
    /\ last.title \in DispatchedKeys(last.by)
    /\ _action = "download"

====
